---- MODULE Spec2Model ----
(***************************************************************************)
(* Model of fashion_ai_v2.py: a Streamlit page script that is re-executed  *)
(* from top to bottom on every page run.  One page run selects topics,     *)
(* loads the memoized CLIP model, and for every selected topic fetches     *)
(* image records through a time-to-live cache, scores each record, sorts   *)
(* by score and displays the first five.                                   *)
(*                                                                         *)
(* Strings are sequences of one-character strings, so that split and       *)
(* strip are computed, not assumed.  Scores are records: a number in       *)
(* hundredths, or one of the non-finite floats.                            *)
(***************************************************************************)
EXTENDS Integers, Sequences, FiniteSets, TLC

(* ------------------------------ bounds -------------------------------- *)

\* longest free-text input typed into the text field
MaxTextLen == 1
\* most results one search response carries (Spec)
MaxFetch == 1
\* most records of the topic that is scored and ranked (SpecRank)
MaxResults == 6

(* ------------------------- program constants -------------------------- *)

\* st.cache_data(ttl=3600)
ttl == 3600
\* ranked[:5]
TopN == 5

\* the characters a topic or the free text is made of
Chars == {"a", " ", ","}

\* FASHION_TOPICS: two of the ten entries, spelled over Chars
FASHION_TOPICS == << <<"a">>, <<"a", "a">> >>

None == "None"

(* ----------------------------- sequences ------------------------------ *)

Range(s) == {s[i] : i \in DOMAIN s}

Min(a, b) == IF a <= b THEN a ELSE b

SeqsUpTo(S, n) == UNION {[1..k -> S] : k \in 0..n}

\* s[:n]
Prefix(s, n) == SubSeq(s, 1, Min(n, Len(s)))

Reverse(s) == [i \in 1..Len(s) |-> s[Len(s) + 1 - i]]

(* --------------------------- topic selector --------------------------- *)

RECURSIVE LStrip(_)
LStrip(s) == IF s # <<>> /\ Head(s) = " " THEN LStrip(Tail(s)) ELSE s

\* str.strip()
Strip(s) == Reverse(LStrip(Reverse(LStrip(s))))

\* str.split(","): the pieces between the separators, always at least one
RECURSIVE SplitFrom(_, _)
SplitFrom(s, cur) ==
    IF s = <<>> THEN <<cur>>
    ELSE IF Head(s) = "," THEN <<cur>> \o SplitFrom(Tail(s), <<>>)
    ELSE SplitFrom(Tail(s), Append(cur, Head(s)))

Split(s) == SplitFrom(s, <<>>)

\* [t.strip() for t in custom_text.split(",") if t.strip()]
ParseTopics(custom_text) ==
    LET stripped == [i \in DOMAIN Split(custom_text) |-> Strip(Split(custom_text)[i])]
    IN  SelectSeq(stripped, LAMBDA t : t # <<>>)

\* selected_topics = predefined + custom_topics
SelectedTopics(pre, custom) == pre \o custom

\* if not selected_topics: st.info(...); st.stop()
NeverHalts(topics) == FALSE

Halts(topics) == topics = <<>>

\* what st.multiselect can return: options in the order they were picked
Predefined ==
    {s \in SeqsUpTo(Range(FASHION_TOPICS), Len(FASHION_TOPICS)) :
        \A i, j \in DOMAIN s : i # j => s[i] # s[j]}

Texts == SeqsUpTo(Chars, MaxTextLen)

(* ------------------------------ scoring ------------------------------- *)

Num(v) == [k |-> "num", v |-> v]
NaN == [k |-> "nan", v |-> 0]
Inf == [k |-> "inf", v |-> 0]
NoScore == [k |-> "none", v |-> 0]

\* logits_per_image.item(), in thousandths, or a non-finite float
Logits == {Num(3), NaN, Inf}

\* random.uniform(3, 7), in hundredths
Fallbacks == {300, 700}

\* round(x, 2) for x given in ten-thousandths: the nearest hundredth.  An
\* exact decimal half goes to even here; in the float it is the binary
\* representation that decides, and no logit of Logits hits one.
Round2(x) ==
    LET q == x \div 100
        r == x % 100
    IN  IF r > 50 \/ (r = 50 /\ q % 2 = 1) THEN q + 1 ELSE q

\* round(5 + score * 2.5, 2)
Affine(logit) ==
    IF logit.k = "num" THEN Num(Round2(50000 + 25 * logit.v)) ELSE logit

\* float <: false whenever an operand is NaN
Lt(x, y) ==
    /\ x.k # "nan" /\ y.k # "nan"
    /\ \/ x.k = "num" /\ y.k = "num" /\ x.v < y.v
       \/ x.k = "num" /\ y.k = "inf"

Finite(x) == x.k = "num"

(* ------------------------------ ranking ------------------------------- *)

\* count_run of listsort: the length of the run that starts s, and whether
\* it is strictly descending
RECURSIVE RunEnd(_, _, _)
RunEnd(s, i, desc) ==
    IF i >= Len(s) THEN i
    ELSE IF Lt(s[i + 1].score, s[i].score) = desc THEN RunEnd(s, i + 1, desc)
    ELSE i

Descending(s) == Len(s) >= 2 /\ Lt(s[2].score, s[1].score)

CountRun(s) == IF Len(s) < 2 THEN Len(s) ELSE RunEnd(s, 2, Descending(s))

\* the binary search of binarysort: where pivot goes in the sorted s[l+1..r]
RECURSIVE InsertAt(_, _, _, _)
InsertAt(s, pivot, l, r) ==
    IF l >= r THEN l
    ELSE LET p == l + ((r - l) \div 2)
         IN  IF Lt(pivot.score, s[p + 1].score) THEN InsertAt(s, pivot, l, p)
             ELSE InsertAt(s, pivot, p + 1, r)

\* binarysort: s[1..start-1] is sorted; insert s[start..] one by one
RECURSIVE BinarySort(_, _)
BinarySort(s, start) ==
    IF start > Len(s) THEN s
    ELSE LET at == InsertAt(s, s[start], 0, start - 1)
             moved == SubSeq(s, 1, at) \o <<s[start]>> \o SubSeq(s, at + 1, start - 1)
                      \o SubSeq(s, start + 1, Len(s))
         IN  BinarySort(moved, start + 1)

\* list.sort on fewer than 64 elements: one run, extended by binarysort
ListSort(s) ==
    LET n == CountRun(s)
        run == IF Descending(s) THEN Reverse(SubSeq(s, 1, n)) \o SubSeq(s, n + 1, Len(s))
               ELSE s
    IN  IF Len(s) < 2 THEN s ELSE BinarySort(run, n + 1)

\* sorted(images, key=lambda x: x["score"], reverse=True)
Sorted(images) == Reverse(ListSort(Reverse(images)))

(* --------------------------- image source ----------------------------- *)

\* what st.secrets.get("UNSPLASH_ACCESS_KEY") can return
Keys == {None, "", "key"}

\* if not UNSPLASH_ACCESS_KEY: ... return []
KeyNotNone(key) == key # None

HasKey(key) == key # None /\ key # ""

\* fetch_unsplash_images(topic, count=10)
Count == 10

CacheKey(query, count) == <<query, count>>

\* the objects of data["results"]; the first has a null alt_description
Results(n) ==
    [i \in 1..n |-> [id |-> i, alt_description |-> IF i = 1 THEN None ELSE "alt"]]

\* what requests.get(url, params) can do: raise, or return a response
Responses ==
    {[kind |-> "raise", status |-> 0, body |-> "none", results |-> <<>>]}
    \cup {[kind |-> "http", status |-> st, body |-> "json", results |-> <<>>] :
            st \in {403, 500}}
    \cup {[kind |-> "http", status |-> 200, body |-> b, results |-> <<>>] :
            b \in {"malformed", "noresults"}}
    \cup {[kind |-> "http", status |-> 200, body |-> "json", results |-> Results(n)] :
            n \in 0..MaxFetch}

\* r.json() raises, or a result lacks a field the comprehension reads
Raises(resp) == resp.kind = "raise" \/ (resp.status = 200 /\ resp.body = "malformed")

\* the list comprehension over data.get("results", [])
Records(results) ==
    [i \in DOMAIN results |->
        [title |-> IF results[i].alt_description = None THEN "Untitled"
                   ELSE results[i].alt_description,
         url |-> results[i].id, author |-> results[i].id, link |-> results[i].id,
         score |-> NoScore]]

\* st.cache_data(ttl=3600): an entry is served while younger than ttl
NeverExpires(age) == TRUE

Fresh(age) == age < ttl

\* st.cache_data stores whatever the function returned, with what it reported
StoreNonEmpty(c, key, value, msg) ==
    IF value = <<>> THEN c
    ELSE [k \in DOMAIN c \cup {key} |->
            IF k = key THEN [value |-> value, msg |-> msg, age |-> 0] ELSE c[k]]

Store(c, key, value, msg) ==
    [k \in DOMAIN c \cup {key} |->
        IF k = key THEN [value |-> value, msg |-> msg, age |-> 0] ELSE c[k]]

\* st.cache_resource: the model is constructed only while nothing is memoized
NotMemoized(m) == FALSE

Memoized(m) == m # None

\* how much time passes between two steps
TickSteps == {ttl \div 2, ttl}

(* ------------------------------- state -------------------------------- *)

VARIABLES
    pc,                  \* where the page run is
    UNSPLASH_ACCESS_KEY, \* the credential this run read
    predefined,          \* the multiselect's value
    custom_topics,       \* the trimmed, non-empty entries of the text field
    selected_topics,
    ti,                  \* index of the topic the for loop is at
    images,              \* the records of the current topic
    si,                  \* index of the record being scored
    ranked,
    displayed,           \* the records st.image was called for, current topic
    ui,                  \* what this run rendered, one entry per topic
    fetched,             \* how the latest fetch call of this run went
    prompted,            \* st.info("Choose at least one theme...") was shown
    crash,               \* the call that raised out of the script, if any
    requests,            \* requests to the search endpoint, this run
    downloads,           \* image downloads, this run
    loads,               \* model constructions started, this run
    cache,               \* st.cache_data of fetch_unsplash_images
    clip,                \* st.cache_resource of load_clip_model
    constructions        \* completed model constructions, this process

vars == <<pc, UNSPLASH_ACCESS_KEY, predefined, custom_topics, selected_topics,
          ti, images, si, ranked, displayed, ui, fetched, prompted, crash,
          requests, downloads, loads, cache, clip, constructions>>

runVars == <<UNSPLASH_ACCESS_KEY, predefined, custom_topics, selected_topics>>

NoFetch == [topic |-> <<>>, via |-> "none", report |-> "none", n |-> 0]

Init ==
    /\ pc = "idle"
    /\ UNSPLASH_ACCESS_KEY = None
    /\ predefined = <<>>
    /\ custom_topics = <<>>
    /\ selected_topics = <<>>
    /\ ti = 1
    /\ images = <<>>
    /\ si = 1
    /\ ranked = <<>>
    /\ displayed = <<>>
    /\ ui = <<>>
    /\ fetched = NoFetch
    /\ prompted = FALSE
    /\ crash = "none"
    /\ requests = 0
    /\ downloads = 0
    /\ loads = 0
    /\ cache = <<>>
    /\ clip = None
    /\ constructions = 0

RunOver == pc \in {"idle", "stopped", "done", "crashed"}

(* ------------------------------ actions ------------------------------- *)

\* a page run starts: lines 19 and 78-94, up to st.stop() or the load step
Rerun ==
    /\ RunOver
    /\ \E key \in Keys, pre \in Predefined,
          custom \in {ParseTopics(custom_text) : custom_text \in Texts} :
        /\ UNSPLASH_ACCESS_KEY' = key
        /\ predefined' = pre
        /\ custom_topics' = custom
        /\ selected_topics' = SelectedTopics(pre, custom)
        /\ IF Halts(SelectedTopics(pre, custom))
           THEN pc' = "stopped" /\ prompted' = TRUE
           ELSE pc' = "load" /\ prompted' = FALSE
    /\ ti' = 1 /\ si' = 1
    /\ images' = <<>> /\ ranked' = <<>> /\ displayed' = <<>>
    /\ ui' = <<>> /\ fetched' = NoFetch /\ crash' = "none"
    /\ requests' = 0 /\ downloads' = 0 /\ loads' = 0
    /\ UNCHANGED <<cache, clip, constructions>>

\* model, processor = load_clip_model()
LoadModel ==
    /\ pc = "load"
    /\ IF Memoized(clip)
       THEN /\ pc' = "loop"
            /\ UNCHANGED <<clip, constructions, loads, crash>>
       ELSE /\ loads' = loads + 1
            /\ \/ /\ clip' = "clip"
                  /\ constructions' = constructions + 1
                  /\ pc' = "loop"
                  /\ UNCHANGED crash
               \/ /\ pc' = "crashed"
                  /\ crash' = "load"
                  /\ UNCHANGED <<clip, constructions>>
    /\ UNCHANGED <<runVars, ti, images, si, ranked, displayed, ui, fetched,
                   prompted, requests, downloads, cache>>

\* lines 103-105 after a fetch that returned value
AfterFetch(topic, value, via, report) ==
    /\ fetched' = [topic |-> topic, via |-> via, report |-> report, n |-> Len(value)]
    /\ images' = value
    /\ si' = 1
    /\ ranked' = <<>>
    /\ displayed' = <<>>
    /\ crash' = crash
    /\ IF value = <<>>
       THEN /\ ui' = Append(ui, [topic |-> topic, out |-> "warning", shown |-> 0])
            /\ ti' = ti + 1
            /\ pc' = "loop"
       ELSE /\ pc' = "score"
            /\ UNCHANGED <<ui, ti>>

\* the call raised: the script run ends with the exception
FetchRaised(topic) ==
    /\ fetched' = [topic |-> topic, via |-> "body", report |-> "raised", n |-> 0]
    /\ pc' = "crashed"
    /\ crash' = "fetch"
    /\ UNCHANGED <<images, si, ranked, displayed, ui, ti, cache>>

\* images = fetch_unsplash_images(topic, count=10), then lines 103-105
FetchTopic ==
    /\ pc = "loop"
    /\ ti <= Len(selected_topics)
    /\ LET topic == selected_topics[ti]
           key == CacheKey(topic, Count)
       IN  IF key \in DOMAIN cache /\ Fresh(cache[key].age)
           THEN /\ AfterFetch(topic, cache[key].value, "cache", cache[key].msg)
                /\ UNCHANGED <<cache, requests>>
           ELSE IF ~HasKey(UNSPLASH_ACCESS_KEY)
           THEN /\ AfterFetch(topic, <<>>, "body", "error")
                /\ cache' = Store(cache, key, <<>>, "error")
                /\ UNCHANGED requests
           ELSE /\ requests' = requests + 1
                /\ \E resp \in Responses :
                     IF Raises(resp) THEN FetchRaised(topic)
                     ELSE IF resp.status # 200
                     THEN /\ AfterFetch(topic, <<>>, "body", "warning")
                          /\ cache' = Store(cache, key, <<>>, "warning")
                     ELSE /\ AfterFetch(topic, Records(resp.results), "body", "none")
                          /\ cache' = Store(cache, key, Records(resp.results), "none")
    /\ UNCHANGED <<runVars, prompted, downloads, loads, clip, constructions>>

\* img["score"] = compute_aesthetic_score(model, processor, img["url"])
ScoreImage ==
    /\ pc = "score"
    /\ si <= Len(images)
    /\ \E score \in {Num(r) : r \in Fallbacks} \cup {Affine(l) : l \in Logits} :
         images' = [images EXCEPT ![si].score = score]
    /\ downloads' = downloads + 1
    /\ si' = si + 1
    /\ UNCHANGED <<pc, runVars, ti, ranked, displayed, ui, fetched, prompted,
                   crash, requests, loads, cache, clip, constructions>>

\* ranked = sorted(...); for img in ranked[:5]: st.image(...)
RankDisplay ==
    /\ pc = "score"
    /\ si > Len(images)
    /\ ranked' = Sorted(images)
    /\ displayed' = Prefix(Sorted(images), TopN)
    /\ ui' = Append(ui, [topic |-> selected_topics[ti], out |-> "gallery",
                         shown |-> Len(Prefix(Sorted(images), TopN))])
    /\ ti' = ti + 1
    /\ pc' = "loop"
    /\ UNCHANGED <<runVars, images, si, fetched, prompted, crash, requests,
                   downloads, loads, cache, clip, constructions>>

\* the for loop is exhausted: the closing st.info; the script's names die
Finish ==
    /\ pc = "loop"
    /\ ti > Len(selected_topics)
    /\ pc' = "done"
    /\ images' = <<>> /\ ranked' = <<>> /\ displayed' = <<>>
    /\ UNCHANGED <<runVars, ti, si, ui, fetched, prompted, crash, requests,
                   downloads, loads, cache, clip, constructions>>

\* time passes: every cache entry ages
Tick ==
    /\ \E d \in TickSteps :
         cache' = [k \in DOMAIN cache |->
                     [cache[k] EXCEPT !.age = Min(cache[k].age + d, ttl)]]
    /\ cache' # cache
    /\ UNCHANGED <<pc, runVars, ti, images, si, ranked, displayed, ui, fetched,
                   prompted, crash, requests, downloads, loads, clip, constructions>>

Next ==
    \/ Rerun
    \/ LoadModel
    \/ FetchTopic
    \/ ScoreImage
    \/ RankDisplay
    \/ Finish
    \/ Tick

Spec == Init /\ [][Next]_vars

(* ----------------- scoring and ranking of one topic ------------------- *)

\* The page run right after a fetch that returned n records: the topic
\* "a" is selected, the credential is present, the model is loaded and
\* the search answered 200 with n results.
InitRank ==
    \E n \in 1..MaxResults :
        /\ pc = "score"
        /\ UNSPLASH_ACCESS_KEY = "key"
        /\ predefined = <<FASHION_TOPICS[1]>>
        /\ custom_topics = <<>>
        /\ selected_topics = <<FASHION_TOPICS[1]>>
        /\ ti = 1
        /\ images = Records(Results(n))
        /\ si = 1
        /\ ranked = <<>>
        /\ displayed = <<>>
        /\ ui = <<>>
        /\ fetched = [topic |-> FASHION_TOPICS[1], via |-> "body", report |-> "none",
                      n |-> n]
        /\ prompted = FALSE
        /\ crash = "none"
        /\ requests = 1
        /\ downloads = 0
        /\ loads = 1
        /\ cache = Store(<<>>, CacheKey(FASHION_TOPICS[1], Count),
                         Records(Results(n)), "none")
        /\ clip = "clip"
        /\ constructions = 1

NextRank == ScoreImage \/ RankDisplay \/ Finish

SpecRank == InitRank /\ [][NextRank]_vars

(* ------------------------------ claims -------------------------------- *)

\* the credential is missing: st.secrets has no entry, or an empty one
Missing(key) == key = None \/ key = ""

NoDuplicates(s) == \A i, j \in DOMAIN s : i # j => s[i] # s[j]

\* float >= and >: false whenever an operand is NaN
Ge(x, y) == x.k # "nan" /\ y.k # "nan" /\ ~Lt(x, y)
Gt(x, y) == Lt(y, x)

\* the step is the fetch of the topic the loop is at
FetchStep == pc = "loop" /\ ti <= Len(selected_topics) /\ (pc' # "loop" \/ ti' = ti + 1)

CurTopic == selected_topics[ti]
CurKey == <<CurTopic, Count>>
HadEntry == CurKey \in DOMAIN cache
HadFresh == HadEntry /\ cache[CurKey].age < ttl

NoImagesWarning(topic) == [topic |-> topic, out |-> "warning", shown |-> 0]

\* C1: in a page run with no predefined topic selected and no non-empty
\* trimmed free-text entry, the run prompts the user and halts: it issues no
\* search request, starts no model construction, downloads no image and
\* renders no topic.
C1_EmptySelectionHalts ==
    (pc # "idle" /\ predefined = <<>> /\ custom_topics = <<>>)
        => /\ pc = "stopped"
           /\ prompted
           /\ requests = 0 /\ loads = 0 /\ downloads = 0
           /\ ui = <<>> /\ fetched = NoFetch

\* a halted run of a process whose caches are already populated
C1_Witness ==
    /\ pc = "stopped" /\ prompted
    /\ predefined = <<>> /\ custom_topics = <<>>
    /\ cache # <<>> /\ clip # None

\* C2 as stated: with the credential missing, no run issues a search request,
\* every fetch returns the empty list, every topic rendered shows the
\* "No images" warning and nothing is scored or displayed.
C2_Original ==
    (pc # "idle" /\ Missing(UNSPLASH_ACCESS_KEY))
        => /\ requests = 0
           /\ fetched.n = 0
           /\ downloads = 0
           /\ \A i \in DOMAIN ui : ui[i] = NoImagesWarning(selected_topics[i])

\* C2 amended: with the credential missing, a fetch never issues a search
\* request and never raises; for a key with no unexpired cache entry it runs
\* the function, which reports the error and returns the empty list; for a
\* key with an unexpired entry it returns the cached list; and whenever the
\* fetch returns the empty list the topic shows the "No images" warning,
\* nothing is scored or displayed, and the loop moves to the next topic.
C2_MissingCredential ==
    [][(FetchStep /\ Missing(UNSPLASH_ACCESS_KEY))
        => /\ requests' = requests
           /\ pc' # "crashed"
           /\ ~HadFresh =>
                fetched' = [topic |-> CurTopic, via |-> "body", report |-> "error", n |-> 0]
           /\ HadFresh =>
                /\ fetched'.via = "cache"
                /\ images' = cache[CurKey].value
           /\ fetched'.n = 0 =>
                /\ ui' = Append(ui, NoImagesWarning(CurTopic))
                /\ images' = <<>> /\ displayed' = <<>>
                /\ downloads' = downloads
                /\ pc' = "loop" /\ ti' = ti + 1]_vars

\* a run without credential went through two topics, the function ran for the
\* latest one, and both show the warning
C2_Witness ==
    /\ Missing(UNSPLASH_ACCESS_KEY)
    /\ Len(ui) = 2 /\ Len(selected_topics) >= 2
    /\ fetched.via = "body" /\ fetched.report = "error"
    /\ \A i \in DOMAIN ui : ui[i] = NoImagesWarning(selected_topics[i])
    /\ requests = 0

\* C3: no failure of the search call is fatal: no page run ends with an
\* exception raised out of the fetch of a topic.
C3_Original == ~(pc = "crashed" /\ crash = "fetch")

\* C4: after the scoring step of a topic every record's score is present
\* and finite.
C4_Original ==
    (pc = "score" /\ si > Len(images))
        => \A i \in DOMAIN images : Finite(images[i].score)

\* C5: ranked is a permutation of the fetched records, and every element's
\* score is >= its successor's.
C5_Original ==
    ranked # <<>>
        => /\ Len(ranked) = Len(images)
           /\ Range(ranked) = Range(images)
           /\ \A i \in 1..(Len(ranked) - 1) : Ge(ranked[i].score, ranked[i + 1].score)

\* C6: min(5, n) images are displayed, they are the first elements of
\* ranked, and no record left out has a higher score than a displayed one.
C6_Original ==
    ranked # <<>>
        => /\ Len(displayed) = Min(TopN, Len(images))
           /\ displayed = SubSeq(ranked, 1, Len(displayed))
           /\ \A i \in DOMAIN displayed :
                \A j \in (Len(displayed) + 1)..Len(ranked) :
                    ~Gt(ranked[j].score, displayed[i].score)

\* C7 as stated: a fetch for a key whose entry is younger than one hour
\* returns the cached records without a request, and a fetch for a key whose
\* entry is an hour old or older issues a new request.
C7_Original ==
    [][FetchStep
        => /\ HadFresh =>
                /\ requests' = requests
                /\ images' = cache[CurKey].value
           /\ (HadEntry /\ ~HadFresh) => requests' = requests + 1]_vars

\* C7 amended: a fetch for a key whose entry is younger than one hour returns
\* the cached records without a request and leaves the cache alone; a fetch
\* for a key whose entry is an hour old or older runs the function again,
\* which issues a new request exactly when the credential is present and
\* issues none when it is missing.
C7_CacheWindow ==
    [][FetchStep
        => /\ HadFresh =>
                /\ requests' = requests
                /\ images' = cache[CurKey].value
                /\ fetched'.via = "cache"
                /\ cache' = cache
           /\ (HadEntry /\ ~HadFresh) =>
                /\ fetched'.via = "body"
                /\ Missing(UNSPLASH_ACCESS_KEY) => requests' = requests
                /\ ~Missing(UNSPLASH_ACCESS_KEY) => requests' = requests + 1]_vars

\* records fetched earlier are served from an entry half an hour old, in a
\* run that issued no request
C7_Witness ==
    /\ fetched.via = "cache" /\ fetched.n > 0
    /\ CacheKey(fetched.topic, Count) \in DOMAIN cache
    /\ cache[CacheKey(fetched.topic, Count)].age > 0
    /\ cache[CacheKey(fetched.topic, Count)].age < ttl
    /\ requests = 0

\* C8: no topic appears twice in selected_topics, so none is rendered twice.
C8_Original ==
    /\ NoDuplicates(selected_topics)
    /\ NoDuplicates([i \in DOMAIN ui |-> ui[i].topic])

C10_FailuresCached ==
    [][/\ (FetchStep /\ fetched'.via = "body" /\ fetched'.report \in {"error", "warning"})
            => /\ CurKey \in DOMAIN cache'
               /\ cache'[CurKey] = [value |-> <<>>, msg |-> fetched'.report, age |-> 0]
       /\ (FetchStep /\ HadFresh /\ cache[CurKey].msg \in {"error", "warning"})
            => /\ fetched' = [topic |-> CurTopic, via |-> "cache",
                              report |-> cache[CurKey].msg, n |-> 0]
               /\ requests' = requests
               /\ images' = <<>>
               /\ ui' = Append(ui, NoImagesWarning(CurTopic))
       /\ \A k \in DOMAIN cache :
            (cache[k].msg \in {"error", "warning"} /\ cache[k].age < ttl)
                => /\ k \in DOMAIN cache'
                   /\ cache'[k].value = <<>>
                   /\ cache'[k].msg = cache[k].msg
                   /\ cache'[k].age >= cache[k].age]_vars

\* the empty list stored while the credential was missing is served, half an
\* hour later, to a run that has the credential
C10_Witness ==
    /\ fetched.via = "cache" /\ fetched.report = "error" /\ fetched.n = 0
    /\ ~Missing(UNSPLASH_ACCESS_KEY)
    /\ CacheKey(fetched.topic, Count) \in DOMAIN cache
    /\ cache[CacheKey(fetched.topic, Count)].age > 0
    /\ requests = 0
    /\ ui # <<>>

====
